---- MODULE Spec2Model ----
(***************************************************************************)
(* Model of scripts/translation.py: the translation dictionary (cache),    *)
(* the translation client translate_text, the two tree walkers with their  *)
(* count passes, the signal handler and main's orchestration of the two    *)
(* documents package.json and contributions.json.                          *)
(*                                                                         *)
(* Texts are sequences of one-character strings, so that str.strip and the *)
(* blank test of translate_text are computed.  JSON values are records     *)
(* tagged by kind.  A file on disk is a record [st, ...] whose st is       *)
(* "absent", "partial" (opened with mode 'w', hence truncated, and not yet *)
(* written in full) or "ok".  File writes are taken to succeed.            *)
(***************************************************************************)
EXTENDS Integers, Sequences, FiniteSets, TLC

\* ------------------------------------------------------------------ bounds
\* Number of runs of the program on the same files (each run is a process).
MaxRuns == 2
\* Number of SIGINT/SIGTERM deliveries over all runs.
MaxSignals == 1

\* ------------------------------------------------------------------- texts
ta == <<"a">>
tb == <<"b">>
tX == <<"X">>
tY == <<"Y">>
tEmpty == <<>>
tSpace == <<" ">>

\* str.strip(): leading and trailing whitespace removed.
RECURSIVE lstrip(_)
lstrip(t) ==
  IF t = <<>> THEN t ELSE IF Head(t) = " " THEN lstrip(Tail(t)) ELSE t

RECURSIVE rstrip(_)
rstrip(t) ==
  IF t = <<>> THEN t
  ELSE IF t[Len(t)] = " " THEN rstrip(SubSeq(t, 1, Len(t) - 1)) ELSE t

strip(t) == rstrip(lstrip(t))

\* Mutant of is_blank: only the empty text is passed through (`if not text`).
is_empty(t) == t = <<>>

\* translate_text line 120: `not text or not text.strip()`.
is_blank(t) == t = <<>> \/ strip(t) = <<>>

\* ------------------------------------------------------------- JSON values
Str(t) == [k |-> "str", s |-> t]
Num(n) == [k |-> "num", n |-> n]
Arr(items) == [k |-> "arr", items |-> items]
Obj(items) == [k |-> "obj", items |-> items]
KV(key, val) == [key |-> key, val |-> val]

\* Mutant of REPLACE_TARGET_KEYS: description is missing from the list.
REPLACE_TARGET_KEYS_without_description ==
  {"title", "label", "contents", "displayName", "markdownDescription"}

REPLACE_TARGET_KEYS ==
  {"title", "label", "contents", "displayName", "description", "markdownDescription"}

\* Each path in a sequence of paths, extended at the front by index i.
Prefix(i, paths) == [n \in 1..Len(paths) |-> <<i>> \o paths[n]]

\* The child of container t at index i (a dict's i-th value, a list's i-th item).
child(t, i) == IF t.k = "obj" THEN t.items[i].val ELSE t.items[i]

RECURSIVE node_at(_, _)
node_at(t, p) == IF p = <<>> THEN t ELSE node_at(child(t, Head(p)), Tail(p))

\* Mutant of assign_at: a list takes the new value at its end instead of
\* at index i.
RECURSIVE assign_at_appends(_, _, _)
assign_at_appends(t, p, v) ==
  IF p = <<>> THEN v
  ELSE IF t.k = "obj"
       THEN [t EXCEPT !.items[Head(p)].val = assign_at_appends(@, Tail(p), v)]
       ELSE IF Len(p) = 1
            THEN [t EXCEPT !.items = Append(@, v)]
            ELSE [t EXCEPT !.items[Head(p)] = assign_at_appends(@, Tail(p), v)]

\* obj[key] = v / value[i] = v at the slot the path names.
RECURSIVE assign_at(_, _, _)
assign_at(t, p, v) ==
  IF p = <<>> THEN v
  ELSE IF t.k = "obj"
       THEN [t EXCEPT !.items[Head(p)].val = assign_at(@, Tail(p), v)]
       ELSE [t EXCEPT !.items[Head(p)] = assign_at(@, Tail(p), v)]

\* ---------------------------------------------------- settings-schema walk
\* count_translatable_items
RECURSIVE count_translatable_items(_), count_translatable_from(_, _)
count_translatable_from(obj, i) ==
  IF i > Len(obj.items) THEN 0
  ELSE (IF obj.k = "obj"
        THEN LET key == obj.items[i].key
                 value == obj.items[i].val
             IN IF key \in REPLACE_TARGET_KEYS /\ value.k = "str" THEN 1
                ELSE IF key = "enumDescriptions" /\ value.k = "arr"
                     THEN Cardinality({j \in 1..Len(value.items) : value.items[j].k = "str"})
                     ELSE count_translatable_items(value)
        ELSE count_translatable_items(obj.items[i]))
       + count_translatable_from(obj, i + 1)

count_translatable_items(obj) ==
  IF obj.k \in {"obj", "arr"} THEN count_translatable_from(obj, 1) ELSE 0

\* The string elements of an enumDescriptions list, as paths below item i.
RECURSIVE enum_slots(_, _, _)
enum_slots(value, i, j) ==
  IF j > Len(value.items) THEN <<>>
  ELSE (IF value.items[j].k = "str" THEN << <<i, j>> >> ELSE <<>>)
       \o enum_slots(value, i, j + 1)

\* traverse_and_translate: the slots it hands to translate_text, in the order
\* it visits them.
RECURSIVE traverse_and_translate(_), traverse_from(_, _)
traverse_from(obj, i) ==
  IF i > Len(obj.items) THEN <<>>
  ELSE (IF obj.k = "obj"
        THEN LET key == obj.items[i].key
                 value == obj.items[i].val
             IN IF key \in REPLACE_TARGET_KEYS /\ value.k = "str" THEN << <<i>> >>
                ELSE IF key = "enumDescriptions" /\ value.k = "arr"
                     THEN enum_slots(value, i, 1)
                     ELSE Prefix(i, traverse_and_translate(value))
        ELSE Prefix(i, traverse_and_translate(obj.items[i])))
       \o traverse_from(obj, i + 1)

traverse_and_translate(obj) ==
  IF obj.k \in {"obj", "arr"} THEN traverse_from(obj, 1) ELSE <<>>

\* ----------------------------------------------- contributions-schema walk
\* count_contributions_translatable_items
RECURSIVE count_contributions_translatable_items(_), count_contributions_from(_, _)
count_contributions_from(obj, i) ==
  IF i > Len(obj.items) THEN 0
  ELSE (IF obj.k = "obj"
        THEN LET key == obj.items[i].key
                 value == obj.items[i].val
             IN IF key = "label" /\ value.k = "str" THEN 1
                ELSE IF key = "name" /\ value.k = "str" THEN 1
                ELSE IF key = "contents" /\ value.k = "str" THEN 1
                ELSE IF key \in {"title", "description"}
                     THEN count_contributions_translatable_items(value)
                     ELSE count_contributions_translatable_items(value)
        ELSE count_contributions_translatable_items(obj.items[i]))
       + count_contributions_from(obj, i + 1)

count_contributions_translatable_items(obj) ==
  IF obj.k \in {"obj", "arr"} THEN count_contributions_from(obj, 1) ELSE 0

\* translate_in_object: the slots it hands to translate_text, in order.
RECURSIVE translate_in_object(_), translate_in_from(_, _)
translate_in_from(obj, i) ==
  IF i > Len(obj.items) THEN <<>>
  ELSE (IF obj.k = "obj"
        THEN LET key == obj.items[i].key
                 value == obj.items[i].val
             IN IF key = "label" /\ value.k = "str" THEN << <<i>> >>
                ELSE IF key = "name" /\ value.k = "str" THEN << <<i>> >>
                ELSE IF key = "contents" /\ value.k = "str" THEN << <<i>> >>
                ELSE IF key \in {"title", "description"} /\ value.k = "str"
                     THEN << <<i>> >>
                     ELSE Prefix(i, translate_in_object(value))
        ELSE Prefix(i, translate_in_object(obj.items[i])))
       \o translate_in_from(obj, i + 1)

translate_in_object(obj) ==
  IF obj.k \in {"obj", "arr"} THEN translate_in_from(obj, 1) ELSE <<>>

\* --------------------------------------------------------------- documents
NoTree == [k |-> "none"]
Absent == [st |-> "absent", tree |-> NoTree]
Truncated == [st |-> "partial", tree |-> NoTree]
Stored(tree) == [st |-> "ok", tree |-> tree]

\* package.json inputs: a settings tree with a repeated text, an enumeration
\* list holding an empty string and a number, and a string under a key that
\* is not selected; and a flat tree whose texts are all distinct.
PackageDoc1 ==
  Obj(<< KV("title", Str(ta)),
         KV("properties", Arr(<< Obj(<< KV("description", Str(tb)),
                                        KV("enumDescriptions", Arr(<< Str(ta), Str(tEmpty), Num(7) >>)),
                                        KV("default", Str(tb)) >>) >>)) >>)
PackageDoc2 == Obj(<< KV("displayName", Str(ta)), KV("label", Str(tb)) >>)
PackageFiles == {Absent, Stored(PackageDoc1), Stored(PackageDoc2)}

\* contributions.json inputs.
ContributionsDoc1 ==
  Obj(<< KV("label", Str(ta)),
         KV("title", Str(tb)),
         KV("commands", Arr(<< Obj(<< KV("name", Str(ta)),
                                      KV("description", Obj(<< KV("contents", Str(tb)) >>)) >>) >>)) >>)
ContributionsDoc2 == Obj(<< KV("title", Str(ta)) >>)
ContributionsFiles == {Absent, Stored(ContributionsDoc1), Stored(ContributionsDoc2)}

\* Further inputs for the runs of UnitSpec: a whitespace-only text, the key
\* markdownDescription, an object inside an enumeration list, strings in a
\* plain list and under keys that belong to the other schema.
PackageDoc3 ==
  Obj(<< KV("markdownDescription", Str(ta)),
         KV("name", Str(tb)),
         KV("enumDescriptions", Arr(<< Str(tSpace), Obj(<< KV("title", Str(tb)) >>) >>)),
         KV("keywords", Arr(<< Str(ta) >>)),
         KV("title", Obj(<< KV("label", Str(tb)) >>)) >>)
UnitPackageFiles == {Stored(PackageDoc1), Stored(PackageDoc3)}

ContributionsDoc3 ==
  Obj(<< KV("label", Str(tSpace)),
         KV("displayName", Str(ta)),
         KV("enumDescriptions", Arr(<< Str(tb) >>)),
         KV("description", Obj(<< KV("name", Str(tb)) >>)),
         KV("title", Str(ta)),
         KV("count", Num(7)) >>)
UnitContributionsFiles == {Stored(ContributionsDoc1), Stored(ContributionsDoc3)}

\* translation_dictionary.json before the first run.
NoFile == [st |-> "absent", map |-> <<>>]
OpenedForWrite == [st |-> "partial", map |-> <<>>]
Written(map) == [st |-> "ok", map |-> map]
DictionaryFiles ==
  { NoFile,
    Written(<<>>),
    Written(ta :> tX),
    Written(ta :> tX @@ tb :> tY),
    Written(tX :> tY @@ tY :> tX) }

\* What the provider may answer for a text: the content field, before strip().
ProviderContents == { <<"X">>, <<" ", "Y">> }
\* The except branches of translate_text that return the text.
FailureKinds == {"Timeout", "RequestException", "JSONDecodeError", "Exception"}

\* ------------------------------------------------------------------- state
VARIABLES
  pc,                 \* position of the running process, "exited" when it has ended
  file_path_kind,     \* type of the file_path given to TranslationDictionary
  invocation,         \* the command-line arguments and os.environ of the runs
  api_key,            \* main's api_key: what get_api_key() returned, "" before
  dictionary,         \* TranslationDictionary.dictionary
  dictionary_bound,   \* whether the global name `dictionary` is assigned
  dict_file,          \* translation_dictionary.json
  cache_writers,      \* activations of save() that have opened the cache file
  package_file,       \* package.json
  contributions_file, \* contributions.json
  data,               \* the tree loaded by main / translate_contributions_file
  doc,                \* which document is being walked
  idx,                \* index of the walker's next slot
  text,               \* argument of the translate_text call in progress
  progress,           \* the ProgressBar of the pass
  progress_bound,     \* whether main's local name `progress` is assigned
  exit_code,          \* process exit status, -1 while running
  exit_cause,         \* how the process ended
  runs,               \* number of runs started
  signals,            \* number of signals delivered
  interrupted_at,     \* pc at which the signal was delivered, "none" if none
  pre_run,            \* history: the two document files when the run started
  first_value,        \* history: text -> first value the cache held for it
  set_done,           \* history: texts for which set(text, ..) has returned
  last_return,        \* history: how the last translate_text call returned
  failed_slots,       \* history: slots whose provider call failed in this run
  warm,               \* history: every text of package.json was cached at the count
  requested           \* history: texts posted to the provider in this run

vars ==
  << pc, file_path_kind, invocation, api_key, dictionary, dictionary_bound,
     dict_file, cache_writers, package_file, contributions_file, data, doc, idx, text, progress,
     progress_bound, exit_code, exit_cause, runs, signals, interrupted_at,
     pre_run, first_value, set_done, last_return, failed_slots, warm,
     requested >>

files == << dict_file, cache_writers, package_file, contributions_file >>
config == << file_path_kind, invocation, api_key >>
walker == << data, doc, idx, text, progress, progress_bound >>
ending == << exit_code, exit_cause >>
history ==
  << pre_run, first_value, set_done, last_return, failed_slots, warm, requested >>

\* ------------------------------------------------------------- get_api_key
\* An argument that was not given (argparse leaves None) or was given.
None == [some |-> FALSE]
Some(v) == [some |-> TRUE, v |-> v]

\* Python truth of an optional string: neither None nor "".
truthy(o) == o.some /\ o.v # ""

\* os.environ.get(name, default)
environ_get(environ, name, default) ==
  IF name \in DOMAIN environ THEN environ[name] ELSE default

\* get_api_key lines 53-57
get_api_key(args_api_key, args_env_key, environ) ==
  IF truthy(args_api_key) THEN args_api_key.v
  ELSE IF truthy(args_env_key)
       THEN environ_get(environ, args_env_key.v,
                        environ_get(environ, "DEEPSEEK_API_KEY", ""))
       ELSE environ_get(environ, "DEEPSEEK_API_KEY", "")

Invocation(args_api_key, args_env_key, environ) ==
  [api_key |-> args_api_key, env_key |-> args_env_key, environ |-> environ]

\* A run without arguments, with DEEPSEEK_API_KEY unset or set.
PlainInvocations ==
  { Invocation(None, None, <<>>),
    Invocation(None, None, "DEEPSEEK_API_KEY" :> "key") }

\* Every combination of --api-key, --key and the two environment variables
\* being absent, empty or set.
ArgApiKeys == {None, Some(""), Some("k1")}
ArgEnvKeys == {None, Some(""), Some("MY_KEY")}
Environs ==
  UNION {[names -> {"", "k2", "k3"}] : names \in SUBSET {"MY_KEY", "DEEPSEEK_API_KEY"}}
AllInvocations ==
  {Invocation(a, e, env) : a \in ArgApiKeys, e \in ArgEnvKeys, env \in Environs}

\* ----------------------------------------------------- TranslationDictionary
\* Mutant of load: the file is never read, every run starts from {}.
load_ignores_file == <<>>

\* load(): the mapping read from the file; {} when the file does not exist.
load == IF dict_file.st = "absent" THEN <<>> ELSE dict_file.map

\* Mutant of save: the file is written before the entry is inserted.
save_before_insert ==
  Written([x \in DOMAIN dictionary \ {text} |-> dictionary[x]])

\* save(): the file after `with open(.., 'w')` and json.dump have finished.
save == Written(dictionary)

\* Mutant of exists: membership is tested among the translations.
exists_in_values(t) == \E x \in DOMAIN dictionary : dictionary[x] = t

\* exists(text)
exists(t) == t \in DOMAIN dictionary

\* get(text)
get(t) == dictionary[t]

\* set(text, translated), line 80: self.dictionary[text] = translated
set(t, translated) ==
  [x \in DOMAIN dictionary \cup {t} |-> IF x = t THEN translated ELSE dictionary[x]]

\* ---------------------------------------------------------------- ProgressBar
ProgressBar(total) == [total |-> total, current |-> 0, api_calls |-> 0, cache_hits |-> 0]

\* Mutant of update: a cache hit is counted as an API call as well.
update_counts_hit_as_call(p, n, api_call, cache_hit) ==
  [p EXCEPT !.current = @ + n,
            !.api_calls = IF api_call \/ cache_hit THEN @ + 1 ELSE @,
            !.cache_hits = IF cache_hit THEN @ + 1 ELSE @]

update(p, n, api_call, cache_hit) ==
  [p EXCEPT !.current = @ + n,
            !.api_calls = IF api_call THEN @ + 1 ELSE @,
            !.cache_hits = IF cache_hit THEN @ + 1 ELSE @]

\* ------------------------------------------------------------------ helpers
\* The slots of the pass in progress.
slots == IF doc = "package" THEN traverse_and_translate(data) ELSE translate_in_object(data)

\* The texts at the slots a walk selects in a tree.
texts_at(tree, paths) == {node_at(tree, paths[n]).s : n \in 1..Len(paths)}

\* sum(1 for k in dictionary.dictionary.keys() if isinstance(k, str))
already_translated == Cardinality(DOMAIN dictionary)

exit(code, cause) ==
  /\ pc' = "exited"
  /\ exit_code' = code
  /\ exit_cause' = cause

record_first(map) ==
  [x \in DOMAIN first_value \cup DOMAIN map |->
     IF x \in DOMAIN first_value THEN first_value[x] ELSE map[x]]

\* -------------------------------------------------------------------- Init
Init ==
  /\ pc = "start"
  /\ file_path_kind \in {"str", "Path"}
  /\ invocation \in PlainInvocations
  /\ api_key = ""
  /\ dictionary = <<>>
  /\ dictionary_bound = FALSE
  /\ dict_file \in DictionaryFiles
  /\ cache_writers = 0
  /\ package_file \in PackageFiles
  /\ contributions_file \in ContributionsFiles
  /\ data = NoTree
  /\ doc = "none"
  /\ idx = 0
  /\ text = <<>>
  /\ progress = ProgressBar(0)
  /\ progress_bound = FALSE
  /\ exit_code = -1
  /\ exit_cause = "running"
  /\ runs = 1
  /\ signals = 0
  /\ interrupted_at = "none"
  /\ pre_run = [package |-> package_file, contributions |-> contributions_file]
  /\ first_value = <<>>
  /\ set_done = {}
  /\ last_return = "none"
  /\ failed_slots = {}
  /\ warm = FALSE
  /\ requested = {}

\* ----------------------------------------------------------------- main
\* main line 302: dictionary = TranslationDictionary(DICTIONARY_FILE), that is
\* __init__ and load().  load() calls self.file_path.exists(): a str has no
\* such attribute (main passes the str DICTIONARY_FILE), a pathlib.Path has.
construct_dictionary ==
  /\ pc = "start"
  /\ IF file_path_kind = "str"
     THEN /\ exit(1, "AttributeError")
          /\ UNCHANGED << dictionary, dictionary_bound, first_value >>
     ELSE IF dict_file.st = "partial"
     THEN /\ exit(1, "JSONDecodeError")
          /\ UNCHANGED << dictionary, dictionary_bound, first_value >>
     ELSE /\ dictionary' = load
          /\ dictionary_bound' = TRUE
          /\ first_value' = record_first(load)
          /\ pc' = "get_api_key"
          /\ UNCHANGED ending
  /\ UNCHANGED << files, config, walker, runs, signals, interrupted_at,
                  pre_run, set_done, last_return, failed_slots, warm, requested >>

\* Mutant of check_api_key: a missing key is reported but the run goes on.
check_api_key_not_fatal ==
  /\ pc = "get_api_key"
  /\ api_key' = get_api_key(invocation.api_key, invocation.env_key, invocation.environ)
  /\ pc' = "open_package"
  /\ UNCHANGED << files, file_path_kind, invocation, dictionary, dictionary_bound,
                  walker, ending, runs, signals, interrupted_at, history >>

\* main lines 304-311
check_api_key ==
  /\ pc = "get_api_key"
  /\ api_key' = get_api_key(invocation.api_key, invocation.env_key, invocation.environ)
  /\ IF api_key' = ""
     THEN exit(1, "no_api_key")
     ELSE pc' = "open_package" /\ UNCHANGED ending
  /\ UNCHANGED << files, file_path_kind, invocation, dictionary, dictionary_bound, walker, runs,
                  signals, interrupted_at, history >>

\* main lines 313-318
open_package ==
  /\ pc = "open_package"
  /\ IF package_file.st = "absent"
     THEN exit(1, "missing_package") /\ UNCHANGED data
     ELSE IF package_file.st = "partial"
     THEN exit(1, "JSONDecodeError") /\ UNCHANGED data
     ELSE /\ data' = package_file.tree
          /\ pc' = "count_package"
          /\ UNCHANGED ending
  /\ UNCHANGED << files, config, dictionary, dictionary_bound, doc, idx, text,
                  progress, progress_bound, runs, signals, interrupted_at, history >>

\* main lines 323-338: the count pass, the remaining figure and the choice of
\* branch; in the branch `remaining <= 0` the ProgressBar is passed to the
\* walk without being assigned to the local name progress.
count_package ==
  /\ pc = "count_package"
  /\ LET total_items == count_translatable_items(data)
         remaining == total_items - already_translated
     IN /\ progress' = ProgressBar(total_items)
        /\ progress_bound' = (remaining > 0)
  /\ doc' = "package"
  /\ idx' = 1
  /\ pc' = "walk"
  /\ warm' = \A t \in texts_at(data, traverse_and_translate(data)) :
                is_blank(t) \/ exists(t)
  /\ UNCHANGED << files, config, dictionary, dictionary_bound, data, text,
                  ending, runs, signals, interrupted_at, pre_run, first_value,
                  set_done, last_return, failed_slots, requested >>

\* translate_text lines 119-127, called by the walker on its next slot.
translate_text ==
  /\ pc = "walk"
  /\ idx <= Len(slots)
  /\ LET t == node_at(data, slots[idx]).s
     IN IF is_blank(t)
        THEN /\ last_return' = "pass_through"
             /\ idx' = idx + 1
             /\ UNCHANGED << pc, data, text, progress, requested >>
        ELSE IF exists(t)
        THEN /\ progress' = update(progress, 1, FALSE, TRUE)
             /\ data' = assign_at(data, slots[idx], Str(get(t)))
             /\ last_return' = "cache_hit"
             /\ idx' = idx + 1
             /\ UNCHANGED << pc, text, requested >>
        ELSE /\ progress' = update(progress, 1, TRUE, FALSE)
             /\ text' = t
             /\ requested' = requested \cup {t}
             /\ pc' = "calling"
             /\ UNCHANGED << data, idx, last_return >>
  /\ UNCHANGED << files, config, dictionary, dictionary_bound, doc,
                  progress_bound, ending, runs, signals, interrupted_at,
                  pre_run, first_value, set_done, failed_slots, warm >>

\* translate_text lines 158-162 and set line 80, save line 73: the provider
\* answers, the entry is put in memory and the cache file is opened for
\* writing.
provider_success(content) ==
  /\ pc = "calling"
  /\ LET translated == strip(content)
     IN /\ dictionary' = set(text, translated)
        /\ first_value' = record_first(text :> translated)
  /\ dict_file' = OpenedForWrite
  /\ cache_writers' = cache_writers + 1
  /\ pc' = "set_save"
  /\ UNCHANGED << package_file, contributions_file, config, dictionary_bound,
                  walker, ending, runs, signals, interrupted_at, pre_run,
                  set_done, last_return, failed_slots, warm, requested >>

\* save line 74 done, set returns, translate_text line 163 returns translated
\* and the walker stores it.
set_returns ==
  /\ pc = "set_save"
  /\ dict_file' = save
  /\ cache_writers' = cache_writers - 1
  /\ data' = assign_at(data, slots[idx], Str(get(text)))
  /\ idx' = idx + 1
  /\ set_done' = set_done \cup {text}
  /\ last_return' = "translated"
  /\ pc' = "walk"
  /\ UNCHANGED << package_file, contributions_file, config, dictionary,
                  dictionary_bound, doc, text, progress, progress_bound, ending,
                  runs, signals, interrupted_at, pre_run, first_value,
                  failed_slots, warm, requested >>

\* Mutant of provider_failure: the text returned on failure is also cached.
provider_failure_caches_text(kind) ==
  /\ pc = "calling"
  /\ kind \in FailureKinds
  /\ dictionary' = set(text, text)
  /\ dict_file' = Written(set(text, text))
  /\ first_value' = record_first(text :> text)
  /\ failed_slots' = failed_slots \cup {<< doc, slots[idx] >>}
  /\ last_return' = "failed"
  /\ idx' = idx + 1
  /\ pc' = "walk"
  /\ UNCHANGED << cache_writers, package_file, contributions_file, config,
                  dictionary_bound,
                  data, doc, text, progress, progress_bound, ending, runs,
                  signals, interrupted_at, pre_run, set_done, warm, requested >>

\* translate_text lines 169-180: the four except branches that log and
\* return the text.
provider_failure(kind) ==
  /\ pc = "calling"
  /\ kind \in FailureKinds
  /\ failed_slots' = failed_slots \cup {<< doc, slots[idx] >>}
  /\ last_return' = "failed"
  /\ idx' = idx + 1
  /\ pc' = "walk"
  /\ UNCHANGED << files, config, dictionary, dictionary_bound, data, doc, text,
                  progress, progress_bound, ending, runs, signals,
                  interrupted_at, pre_run, first_value, set_done, warm, requested >>

\* main lines 339-343: the walk of package.json has returned; line 341 reads
\* the local name progress; line 343 opens package.json for writing.
package_pass_done ==
  /\ pc = "walk"
  /\ doc = "package"
  /\ idx > Len(slots)
  /\ IF ~progress_bound
     THEN exit(1, "UnboundLocalError") /\ UNCHANGED package_file
     ELSE /\ package_file' = Truncated
          /\ pc' = "write_package"
          /\ UNCHANGED ending
  /\ UNCHANGED << dict_file, cache_writers, contributions_file, config, dictionary,
                  dictionary_bound, walker, runs, signals, interrupted_at, history >>

\* main lines 344-345: json.dump done, file closed.
package_written ==
  /\ pc = "write_package"
  /\ package_file' = Stored(data)
  /\ pc' = "open_contributions"
  /\ UNCHANGED << dict_file, cache_writers, contributions_file, config, dictionary,
                  dictionary_bound, walker, ending, runs, signals,
                  interrupted_at, history >>

\* translate_contributions_file lines 238-257
open_contributions ==
  /\ pc = "open_contributions"
  /\ IF contributions_file.st = "absent"
     THEN /\ pc' = "final_save"
          /\ UNCHANGED << data, doc, idx, progress, ending >>
     ELSE IF contributions_file.st = "partial"
     THEN /\ exit(1, "JSONDecodeError")
          /\ UNCHANGED << data, doc, idx, progress >>
     ELSE LET tree == contributions_file.tree
              total_items == count_contributions_translatable_items(tree)
          IN /\ data' = tree
             /\ IF total_items = 0
                THEN /\ pc' = "final_save"
                     /\ UNCHANGED << doc, idx, progress >>
                ELSE /\ progress' = ProgressBar(total_items)
                     /\ doc' = "contributions"
                     /\ idx' = 1
                     /\ pc' = "walk"
             /\ UNCHANGED ending
  /\ UNCHANGED << files, config, dictionary, dictionary_bound, text,
                  progress_bound, runs, signals, interrupted_at, history >>

\* translate_contributions_file lines 276-281: the walk has returned and
\* contributions.json is opened for writing.
contributions_pass_done ==
  /\ pc = "walk"
  /\ doc = "contributions"
  /\ idx > Len(slots)
  /\ contributions_file' = Truncated
  /\ pc' = "write_contributions"
  /\ UNCHANGED << dict_file, cache_writers, package_file, config, dictionary, dictionary_bound,
                  walker, ending, runs, signals, interrupted_at, history >>

\* translate_contributions_file lines 282-284
contributions_written ==
  /\ pc = "write_contributions"
  /\ contributions_file' = Stored(data)
  /\ pc' = "final_save"
  /\ UNCHANGED << dict_file, cache_writers, package_file, config, dictionary, dictionary_bound,
                  walker, ending, runs, signals, interrupted_at, history >>

\* main line 355, save line 73: the cache file is opened for writing.
final_save_begin ==
  /\ pc = "final_save"
  /\ dict_file' = OpenedForWrite
  /\ cache_writers' = cache_writers + 1
  /\ pc' = "final_saving"
  /\ UNCHANGED << package_file, contributions_file, config, dictionary,
                  dictionary_bound, walker, ending, runs, signals,
                  interrupted_at, history >>

\* save line 74 done, main line 356, the process ends.
final_save_done ==
  /\ pc = "final_saving"
  /\ dict_file' = save
  /\ cache_writers' = 0
  /\ exit(0, "completed")
  /\ UNCHANGED << package_file, contributions_file, config, dictionary,
                  dictionary_bound, walker, runs, signals, interrupted_at, history >>

\* ------------------------------------------------------------------ signals
\* Mutant of signal_handler: the handler also writes the tree walked so far
\* back to package.json.
signal_handler_writes_document ==
  /\ pc # "exited"
  /\ signals < MaxSignals
  /\ signals' = signals + 1
  /\ interrupted_at' = IF pc = "handler_save" THEN interrupted_at ELSE pc
  /\ IF ~dictionary_bound
     THEN exit(1, "NameError") /\ UNCHANGED << dict_file, cache_writers, package_file >>
     ELSE /\ dict_file' = OpenedForWrite
          /\ cache_writers' = cache_writers + 1
          /\ package_file' = Stored(data)
          /\ pc' = "handler_save"
          /\ UNCHANGED ending
  /\ UNCHANGED << contributions_file, config, dictionary, dictionary_bound,
                  walker, runs, history >>

\* SIGINT or SIGTERM is delivered: signal_handler lines 287-289 up to the
\* open of the cache file in dictionary.save().  While the global name
\* dictionary is not assigned, line 289 raises NameError.
signal_handler ==
  /\ pc # "exited"
  /\ signals < MaxSignals
  /\ signals' = signals + 1
  /\ interrupted_at' = IF pc = "handler_save" THEN interrupted_at ELSE pc
  /\ IF ~dictionary_bound
     THEN exit(1, "NameError") /\ UNCHANGED << dict_file, cache_writers >>
     ELSE /\ dict_file' = OpenedForWrite
          /\ cache_writers' = cache_writers + 1
          /\ pc' = "handler_save"
          /\ UNCHANGED ending
  /\ UNCHANGED << package_file, contributions_file, config, dictionary,
                  dictionary_bound, walker, runs, history >>

\* signal_handler lines 289-292: save() done, sys.exit(0).  A document file
\* that was being written is closed as far as it was written.
handler_exit ==
  /\ pc = "handler_save"
  /\ dict_file' = save
  /\ cache_writers' = 0
  /\ exit(0, "signal")
  /\ UNCHANGED << package_file, contributions_file, config, dictionary,
                  dictionary_bound, walker, runs, signals, interrupted_at, history >>

\* The program is started again on the files the last run left.
run_again ==
  /\ pc = "exited"
  /\ runs < MaxRuns
  /\ runs' = runs + 1
  /\ pc' = "start"
  /\ dictionary' = <<>>
  /\ dictionary_bound' = FALSE
  /\ data' = NoTree
  /\ doc' = "none"
  /\ idx' = 0
  /\ text' = <<>>
  /\ progress' = ProgressBar(0)
  /\ progress_bound' = FALSE
  /\ exit_code' = -1
  /\ exit_cause' = "running"
  /\ interrupted_at' = "none"
  /\ pre_run' = [package |-> package_file, contributions |-> contributions_file]
  /\ last_return' = "none"
  /\ failed_slots' = {}
  /\ warm' = FALSE
  /\ requested' = {}
  /\ api_key' = ""
  /\ UNCHANGED << files, file_path_kind, invocation, signals, first_value, set_done >>

Next ==
  \/ construct_dictionary
  \/ check_api_key
  \/ open_package
  \/ count_package
  \/ translate_text
  \/ \E content \in ProviderContents : provider_success(content)
  \/ set_returns
  \/ \E kind \in FailureKinds : provider_failure(kind)
  \/ package_pass_done
  \/ package_written
  \/ open_contributions
  \/ contributions_pass_done
  \/ contributions_written
  \/ final_save_begin
  \/ final_save_done
  \/ signal_handler
  \/ handler_exit
  \/ run_again

Spec == Init /\ [][Next]_vars

\* --------------------------------------------------------------- UnitSpec
\* Single runs that no signal interrupts, with the dictionary constructed on
\* a Path: every invocation of get_api_key on missing documents, and the
\* walks of the further documents with a key given by --api-key.
UnitInit ==
  /\ pc = "start"
  /\ file_path_kind = "Path"
  /\ \/ /\ invocation \in AllInvocations
        /\ dict_file = NoFile
        /\ package_file = Absent
        /\ contributions_file = Absent
     \/ /\ invocation = Invocation(Some("k1"), None, <<>>)
        /\ dict_file \in {NoFile, Written(ta :> tX)}
        /\ package_file \in UnitPackageFiles
        /\ contributions_file \in UnitContributionsFiles
  /\ api_key = ""
  /\ dictionary = <<>>
  /\ dictionary_bound = FALSE
  /\ cache_writers = 0
  /\ data = NoTree
  /\ doc = "none"
  /\ idx = 0
  /\ text = <<>>
  /\ progress = ProgressBar(0)
  /\ progress_bound = FALSE
  /\ exit_code = -1
  /\ exit_cause = "running"
  /\ runs = 1
  /\ signals = 0
  /\ interrupted_at = "none"
  /\ pre_run = [package |-> package_file, contributions |-> contributions_file]
  /\ first_value = <<>>
  /\ set_done = {}
  /\ last_return = "none"
  /\ failed_slots = {}
  /\ warm = FALSE
  /\ requested = {}

UnitNext ==
  \/ construct_dictionary
  \/ check_api_key
  \/ open_package
  \/ count_package
  \/ translate_text
  \/ \E content \in ProviderContents : provider_success(content)
  \/ set_returns
  \/ \E kind \in FailureKinds : provider_failure(kind)
  \/ package_pass_done
  \/ package_written
  \/ open_contributions
  \/ contributions_pass_done
  \/ contributions_written
  \/ final_save_begin
  \/ final_save_done

UnitSpec == UnitInit /\ [][UnitNext]_vars

\* ================================================================== claims
\* The mapping a reader of the cache file finds (none for a missing file).
stored_mapping == IF dict_file.st = "ok" THEN dict_file.map ELSE <<>>

\* The text at the slot the walker handled last.
last_slot_text == node_at(data, slots[idx - 1]).s

\* The process has ended after a signal was delivered to it.
InterruptedExit == pc = "exited" /\ interrupted_at # "none"

\* C1: whenever translate_text has returned to the walker (pass-through, cache
\* hit, translation or failure), the cache file is completely written and its
\* mapping equals the in-memory dictionary.
C1_WriteThrough ==
  (pc = "walk" /\ last_return # "none") =>
     /\ dict_file.st # "partial"
     /\ stored_mapping = dictionary

\* C1 witness: translate_text has just returned a translation obtained from
\* the provider and the file holds the new entry.
C1_Witness ==
  /\ pc = "walk"
  /\ last_return = "translated"
  /\ dict_file.st = "ok"
  /\ text \in DOMAIN dict_file.map
  /\ dict_file.map = dictionary

\* The signal arrived before the translate pass over package.json had handled
\* its last slot.
PackagePassUnfinished ==
  \/ interrupted_at \in {"start", "get_api_key", "open_package", "count_package"}
  \/ /\ interrupted_at \in {"walk", "calling", "set_save"}
     /\ doc = "package"
     /\ idx <= Len(slots)

\* The signal arrived before the translate pass over contributions.json had
\* handled its last slot.
ContributionsPassUnfinished ==
  \/ interrupted_at \in {"start", "get_api_key", "open_package", "count_package",
                         "write_package", "open_contributions"}
  \/ /\ interrupted_at \in {"walk", "calling", "set_save"}
     /\ (doc = "package" \/ idx <= Len(slots))

\* The cache file holds every entry the cache ever held, hence every
\* translation obtained from the provider, and none for the text whose
\* provider call was outstanding when the signal arrived.
CacheReflectsProgress ==
  /\ dict_file.st # "partial"
  /\ \A t \in DOMAIN first_value :
        t \in DOMAIN stored_mapping /\ stored_mapping[t] = first_value[t]
  /\ interrupted_at = "calling" => text \notin DOMAIN stored_mapping

\* C2: when the process has ended after a signal that arrived before a
\* document's translate pass finished, that document's file is what it was
\* when the run started, and the cache file holds every translation obtained
\* so far and no entry for the call that was outstanding.
C2_AtomicWriteBack ==
  InterruptedExit =>
     /\ PackagePassUnfinished =>
          package_file = pre_run.package /\ CacheReflectsProgress
     /\ ContributionsPassUnfinished =>
          contributions_file = pre_run.contributions /\ CacheReflectsProgress

\* C2 witness: a signal arrived during a provider call of the package.json
\* pass, after another text had been translated; the process has ended.
C2_Witness ==
  /\ InterruptedExit
  /\ exit_cause = "signal"
  /\ interrupted_at = "calling"
  /\ doc = "package"
  /\ idx > 1
  /\ set_done # {}
  /\ package_file = pre_run.package
  /\ package_file.st = "ok"

\* C3: when an execution has ended, however it ended, no document file is
\* left truncated or partly written.
C3_DocumentNeverPartial ==
  pc = "exited" =>
     /\ package_file.st # "partial"
     /\ contributions_file.st # "partial"

\* The tree a pass leaves when every non-blank selected text is replaced by
\* its cache entry.
RECURSIVE apply_dictionary(_, _, _)
apply_dictionary(tree, paths, n) ==
  IF n = 0 THEN tree
  ELSE LET t == node_at(tree, paths[n]).s
           before == apply_dictionary(tree, paths, n - 1)
       IN IF is_blank(t) THEN before
          ELSE assign_at(before, paths[n], Str(dictionary[t]))

\* C4: a run that is not interrupted and finds every text of package.json in
\* the cache ends with status 0, has posted none of these texts to the
\* provider and has written package.json with every text replaced by its
\* cache entry.
C4_Idempotence ==
  (pc = "exited" /\ warm /\ interrupted_at = "none") =>
     LET tree == pre_run.package.tree
         paths == traverse_and_translate(tree)
     IN /\ exit_code = 0
        /\ requested \cap texts_at(tree, paths) = {}
        /\ package_file = Stored(apply_dictionary(tree, paths, Len(paths)))

\* C5: no provider call is outstanding for a text whose set() has returned,
\* in this run or an earlier one; translate_text on such a text returns its
\* cache entry and records a cache hit.
C5_NoRepeatedCall ==
  /\ [](pc = "calling" => text \notin set_done)
  /\ [][ ( /\ pc = "walk"
           /\ idx <= Len(slots)
           /\ node_at(data, slots[idx]).s \in set_done
           /\ pc' = "walk" )
         => LET t == node_at(data, slots[idx]).s
            IN /\ last_return' = "cache_hit"
               /\ progress'.cache_hits = progress.cache_hits + 1
               /\ requested' = requested
               /\ node_at(data', slots[idx]).s = first_value[t] ]_vars

\* C5 witness: in a second run, a text whose set() returned in the first
\* run has been answered by a cache hit.
C5_Witness ==
  /\ runs = 2
  /\ pc = "walk"
  /\ idx > 1
  /\ last_return = "cache_hit"
  /\ requested = {}
  /\ \E t \in set_done : t \in texts_at(pre_run.package.tree, traverse_and_translate(pre_run.package.tree))
                         /\ last_slot_text = first_value[t]

\* C6: an entry of the cache keeps its first value and is never removed, in
\* the run that made it and in every later run once the cache is loaded; and
\* set is not applied to a key that exists.
C6_EntryStability ==
  /\ dictionary_bound =>
       \A t \in DOMAIN first_value :
          t \in DOMAIN dictionary /\ dictionary[t] = first_value[t]
  /\ pc = "calling" => text \notin DOMAIN dictionary

\* C6 witness: a second run has loaded a cache that holds an entry set in
\* the first run and one the first run had loaded.
C6_Witness ==
  /\ runs = 2
  /\ pc = "get_api_key"
  /\ set_done # {}
  /\ DOMAIN dictionary \ set_done # {}
  /\ \A t \in set_done : t \in DOMAIN dictionary

\* C7: when a translate pass has handled its last slot, the number of
\* progress updates equals the total of the count pass.
C7_CountTraversalAgreement ==
  (pc = "walk" /\ idx > Len(slots)) => progress.current = progress.total

\* The slots of package.json whose provider call failed in this run.
failed_package_slots == {f \in failed_slots : f[1] = "package"}

\* C8: a run that is not interrupted and in which the provider failed for
\* exactly one leaf of package.json ends with status 0 and has written
\* package.json with the failed leaf as it was and every other non-blank leaf
\* replaced by its translation.
C8_PartialFailureIsolation ==
  (pc = "exited" /\ interrupted_at = "none" /\ Cardinality(failed_package_slots) = 1) =>
     LET tree == pre_run.package.tree
         paths == traverse_and_translate(tree)
     IN /\ exit_code = 0
        /\ package_file.st = "ok"
        /\ \A n \in 1..Len(paths) :
              LET was == node_at(tree, paths[n]).s
                  now == node_at(package_file.tree, paths[n]).s
              IN IF << "package", paths[n] >> \in failed_package_slots \/ is_blank(was)
                 THEN now = was
                 ELSE was \in DOMAIN dictionary /\ now = dictionary[was]

\* C9: when translate_text returns from a failed provider call, the slot
\* keeps the text, the in-memory cache and the cache file are what they were
\* before the return, and neither holds an entry for the text.
C9_FailureLeavesCache ==
  [][ (pc = "calling" /\ pc' = "walk")
      => /\ dictionary' = dictionary
         /\ dict_file' = dict_file
         /\ text \notin DOMAIN dictionary'
         /\ text \notin DOMAIN dict_file'.map
         /\ data' = data
         /\ node_at(data', slots[idx]).s = text ]_vars

\* C9 witness: a provider call has failed while the cache held other
\* entries; the walker has moved on and the slot holds the text.
C9_Witness ==
  /\ pc = "walk"
  /\ idx > 1
  /\ last_return = "failed"
  /\ last_slot_text = text
  /\ text \notin DOMAIN dictionary
  /\ dictionary # <<>>
  /\ stored_mapping = dictionary

\* C10: a process that has ended after a signal ended with status 0 and
\* with the cache file holding the in-memory dictionary in full.
C10_OrderlyInterruption ==
  InterruptedExit =>
     /\ exit_code = 0
     /\ exit_cause = "signal"
     /\ dict_file = Written(dictionary)

\* A text that is empty or holds only spaces.
only_whitespace(t) == \A i \in 1..Len(t) : t[i] = " "

\* C11: translate_text on an empty or whitespace-only text returns to the
\* walker at once: the slot keeps the text, nothing is posted to the provider,
\* the cache in memory and on disk is as before, and no counter of the
\* ProgressBar moves.
C11_PassThrough ==
  [][ ( /\ pc = "walk"
        /\ idx <= Len(slots)
        /\ only_whitespace(node_at(data, slots[idx]).s)
        /\ signals' = signals )
      => /\ pc' = "walk"
         /\ idx' = idx + 1
         /\ last_return' = "pass_through"
         /\ data' = data
         /\ requested' = requested
         /\ dictionary' = dictionary
         /\ dict_file' = dict_file
         /\ progress' = progress ]_vars

\* C11 witness: a whitespace-only text has been passed through while the
\* cache held entries and the ProgressBar had counted other texts.
C11_Witness ==
  /\ pc = "walk"
  /\ idx > 1
  /\ last_return = "pass_through"
  /\ last_slot_text = tSpace
  /\ dictionary # <<>>
  /\ progress.current > 0

\* C12: constructing the cache as main does raises no error, and the cache
\* then holds the mapping of the backing file, the empty mapping when the file
\* does not exist.
C12_LoadAtStartup ==
  /\ exit_cause # "AttributeError"
  /\ pc = "get_api_key" => dictionary_bound /\ dictionary = stored_mapping

\* The value of the environment variable that --key names, "" when there is
\* none.
named_credential ==
  IF invocation.env_key.some /\ invocation.env_key.v \in DOMAIN invocation.environ
  THEN invocation.environ[invocation.env_key.v] ELSE ""

\* The value of DEEPSEEK_API_KEY, "" when it is not set.
default_credential ==
  IF "DEEPSEEK_API_KEY" \in DOMAIN invocation.environ
  THEN invocation.environ["DEEPSEEK_API_KEY"] ELSE ""

\* The value given with --api-key, "" when there is none.
explicit_credential == IF invocation.api_key.some THEN invocation.api_key.v ELSE ""

\* None of the three sources gives a non-empty credential.
NoCredential ==
  explicit_credential = "" /\ named_credential = "" /\ default_credential = ""

\* C13: in a run without a credential or without package.json nothing is
\* posted to the provider and no document file is written, and the run, when
\* no signal ends it first, ends with a non-zero status.
C13_FatalPreconditions ==
  (NoCredential \/ pre_run.package.st = "absent") =>
     /\ requested = {}
     /\ package_file = pre_run.package
     /\ contributions_file = pre_run.contributions
     /\ (pc = "exited" /\ interrupted_at = "none") => exit_code # 0

\* C13 witness: a run without a credential has ended with status 1 although
\* both documents are there and the cache is loaded.
C13_Witness ==
  /\ NoCredential
  /\ pc = "exited"
  /\ exit_cause = "no_api_key"
  /\ exit_code = 1
  /\ dictionary_bound
  /\ package_file.st = "ok"
  /\ contributions_file.st = "ok"

\* The first non-empty value among --api-key, the variable --key names and
\* DEEPSEEK_API_KEY.
first_non_empty_credential ==
  IF explicit_credential # "" THEN explicit_credential
  ELSE IF named_credential # "" THEN named_credential
  ELSE default_credential

\* C14: the credential main works with is the first non-empty one among the
\* explicit value, the named environment variable and DEEPSEEK_API_KEY.
C14_CredentialPrecedence ==
  (pc \notin {"start", "get_api_key"} /\ interrupted_at \notin {"start", "get_api_key"})
     => api_key = first_non_empty_credential

\* C15: the remaining figure decides nothing: whatever its sign, a run that
\* no signal ends and that has walked package.json goes on to write the
\* document and to contributions.json, so it ends completed or at the parse
\* of contributions.json, with package.json whole.
C15_RemainingDisplayOnly ==
  (pc = "exited" /\ interrupted_at = "none" /\ doc # "none") =>
     /\ package_file.st = "ok"
     /\ exit_cause \in {"completed", "JSONDecodeError"}

\* What a position of a tree holds apart from its children: a dict's keys in
\* order, a list's length, a scalar's value.
shape_of(t) ==
  IF t.k = "obj" THEN [k |-> "obj", keys |-> [i \in 1..Len(t.items) |-> t.items[i].key]]
  ELSE IF t.k = "arr" THEN [k |-> "arr", len |-> Len(t.items)]
  ELSE t

\* Every position of a tree: its index path, the keys on the way to it ("[]"
\* for a step into a list) and its shape.
RECURSIVE positions(_, _, _)
positions(t, path, keys) ==
  {[path |-> path, keys |-> keys, shape |-> shape_of(t)]}
  \cup (IF t.k \in {"obj", "arr"}
        THEN UNION {positions(child(t, i), Append(path, i),
                              Append(keys, IF t.k = "obj" THEN t.items[i].key ELSE "[]"))
                    : i \in 1..Len(t.items)}
        ELSE {})

\* The positions that hold a string.
strings_of(tree) == {q \in positions(tree, <<>>, <<>>) : q.shape.k = "str"}

\* The key a position is stored under, "" at the root.
key_of(q) == IF q.keys = <<>> THEN "" ELSE q.keys[Len(q.keys)]

\* The slots of the pass in progress, as a set.
slot_set == {slots[n] : n \in 1..Len(slots)}

\* The string values stored under label, name, contents, title or description.
contributions_selected(tree) ==
  {q.path : q \in {q \in strings_of(tree) :
                     key_of(q) \in {"label", "name", "contents", "title", "description"}}}

\* C16: in the contributions pass the count handed to the progress bar is the
\* number of string values under label, name, contents, title and
\* description, and the slots handed to translate_text are exactly those.
C16_ContributionsRule ==
  (pc = "walk" /\ doc = "contributions") =>
     /\ slot_set = contributions_selected(data)
     /\ progress.total = Cardinality(contributions_selected(data))

\* A position is a direct element of a list stored under enumDescriptions.
enum_element(q) ==
  /\ Len(q.keys) >= 2
  /\ q.keys[Len(q.keys)] = "[]"
  /\ q.keys[Len(q.keys) - 1] = "enumDescriptions"

\* A position lies inside an element of a list stored under enumDescriptions.
below_enum_element(q) ==
  \E i \in 1..(Len(q.keys) - 2) : q.keys[i] = "enumDescriptions" /\ q.keys[i + 1] = "[]"

\* The strings the settings rule selects as the specification words it.
settings_selected_as_specified(tree) ==
  {q.path : q \in {q \in strings_of(tree) :
                     \/ key_of(q) \in {"title", "label", "contents", "displayName", "description"}
                     \/ enum_element(q)}}

\* C17 as specified: the settings walk hands a string to translate_text
\* exactly when its key is title, label, contents, displayName or
\* description, or it is a string element of an enumDescriptions list.
C17_SettingsRuleAsSpecified ==
  (pc = "walk" /\ doc = "package") => slot_set = settings_selected_as_specified(data)

\* The strings the settings rule selects: markdownDescription is a sixth
\* key, and nothing inside an element of an enumDescriptions list is looked at.
settings_selected(tree) ==
  {q.path : q \in {q \in strings_of(tree) :
                     /\ ~below_enum_element(q)
                     /\ \/ key_of(q) \in {"title", "label", "contents", "displayName",
                                          "description", "markdownDescription"}
                        \/ enum_element(q)}}

\* C17: the settings walk hands a string to translate_text exactly when it
\* does not lie inside an element of an enumDescriptions list and either its
\* key is title, label, contents, displayName, description or
\* markdownDescription, or it is itself a string element of such a list.
C17_SettingsRule ==
  (pc = "walk" /\ doc = "package") => slot_set = settings_selected(data)

\* C17 witness: the walk of the tree with a markdownDescription string, an
\* object inside an enumeration list and strings under other keys has handed
\* every slot to translate_text.
C17_Witness ==
  /\ pc = "walk"
  /\ doc = "package"
  /\ pre_run.package = Stored(PackageDoc3)
  /\ idx > Len(slots)
  /\ Cardinality(slot_set) = 3
  /\ Cardinality(strings_of(data)) > 3

\* C18: at most one write of the cache file is in progress at any time.
C18_NoOverlappingCacheWrites == cache_writers <= 1

\* The positions of a tree outside a set of slots.
frame(tree, sel) == {q \in positions(tree, <<>>, <<>>) : q.path \notin sel}

\* The slots each pass selects in a tree, as a set.
package_slots(tree) ==
  {traverse_and_translate(tree)[n] : n \in 1..Len(traverse_and_translate(tree))}
contributions_slots(tree) ==
  {translate_in_object(tree)[n] : n \in 1..Len(translate_in_object(tree))}

\* A tree differs from the original at most in the strings at the slots.
same_frame(tree, original, sel) ==
  /\ frame(tree, sel) = frame(original, sel)
  /\ \A q \in positions(tree, <<>>, <<>>) : q.path \in sel => q.shape.k = "str"

\* A pass is walking its tree or is about to write it.
in_pass == pc \in {"walk", "calling", "set_save", "write_package", "write_contributions"}

\* C19: the tree a pass works on, and the document written from it, differ
\* from the document read only in the strings at the selected slots: every
\* dict keeps its keys in order, every list its length, and every other
\* value is the same at the same place.
C19_Frame ==
  /\ (in_pass /\ doc = "package") =>
       same_frame(data, pre_run.package.tree, package_slots(pre_run.package.tree))
  /\ (in_pass /\ doc = "contributions") =>
       same_frame(data, pre_run.contributions.tree,
                  contributions_slots(pre_run.contributions.tree))
  /\ package_file.st = "ok" =>
       same_frame(package_file.tree, pre_run.package.tree,
                  package_slots(pre_run.package.tree))
  /\ contributions_file.st = "ok" =>
       same_frame(contributions_file.tree, pre_run.contributions.tree,
                  contributions_slots(pre_run.contributions.tree))

\* C19 witness: both passes have changed strings and written their document,
\* the settings tree being the one with a number in its enumeration list and
\* a string under a key that is not selected.
C19_Witness ==
  /\ pc = "exited"
  /\ exit_cause = "completed"
  /\ pre_run.package = Stored(PackageDoc1)
  /\ package_file.st = "ok"
  /\ package_file.tree # PackageDoc1
  /\ contributions_file.st = "ok"
  /\ contributions_file.tree # pre_run.contributions.tree

\* C20: current is cache_hits plus api_calls in every state; a translate_text
\* call on text that is not blank raises current and exactly one of
\* cache_hits and api_calls by one, a call on blank text leaves the three
\* alone, and a provider call that ends, failed or not, changes none of them
\* after the API call was counted.
C20_ProgressAccounting ==
  /\ [](progress.current = progress.cache_hits + progress.api_calls)
  /\ [][ ( /\ pc = "walk" /\ idx <= Len(slots) /\ signals' = signals )
         => IF only_whitespace(node_at(data, slots[idx]).s)
            THEN progress' = progress
            ELSE /\ progress'.current = progress.current + 1
                 /\ progress'.total = progress.total
                 /\ \/ /\ progress'.cache_hits = progress.cache_hits + 1
                       /\ progress'.api_calls = progress.api_calls
                    \/ /\ progress'.api_calls = progress.api_calls + 1
                       /\ progress'.cache_hits = progress.cache_hits ]_vars
  /\ [][ pc = "calling" => (progress' = progress /\ progress.api_calls >= 1) ]_vars

\* C20 witness: a provider call has failed after a cache hit and an earlier
\* call were counted.
C20_Witness ==
  /\ pc = "walk"
  /\ last_return = "failed"
  /\ progress.cache_hits >= 1
  /\ progress.api_calls >= 2
  /\ progress.current = progress.cache_hits + progress.api_calls

====
